---- MODULE Spec2Model ----
(***************************************************************************)
(* Model of the crawl controller of scripts/audit/shopify_sf_like_audit.py *)
(* (class Auditor) together with the URL helpers it relies on.             *)
(*                                                                         *)
(* Strings that the code inspects character by character (hosts, paths,    *)
(* robots directives) are sequences of one-character strings, so that      *)
(* str.lower(), str.startswith() and str.split("/") are computed and not   *)
(* assumed.  A URL is the record of the components urlparse() yields; an   *)
(* href is a reference as it stands in the HTML, before urljoin().         *)
(***************************************************************************)
EXTENDS Integers, Sequences, FiniteSets, TLC

\* ------------------------------------------------------------------ bounds
MaxPagesBound == 4      \* max_pages ranges over 0..MaxPagesBound
MaxDepthBound == 2      \* max_depth ranges over 0..MaxDepthBound

\* ------------------------------------------------------ character strings
LowerChar(c) ==
    CASE c = "C" -> "c"
      [] c = "B" -> "b"
      [] c = "S" -> "s"
      [] c = "N" -> "n"
      [] c = "O" -> "o"
      [] c = "I" -> "i"
      [] c = "D" -> "d"
      [] c = "E" -> "e"
      [] c = "X" -> "x"
      [] c = "A" -> "a"
      [] c = "T" -> "t"
      [] OTHER -> c

Lower(s) == [i \in DOMAIN s |-> LowerChar(s[i])]

StartsWith(s, p) == Len(s) >= Len(p) /\ SubSeq(s, 1, Len(p)) = p

Contains(s, p) ==
    \E i \in 0..(Len(s) - Len(p)) : SubSeq(s, i + 1, i + Len(p)) = p

\* str.split("/") followed by the filter "if x": the non-empty segments
RECURSIVE SplitParts(_, _, _)
SplitParts(s, cur, acc) ==
    IF s = <<>> THEN (IF cur = <<>> THEN acc ELSE Append(acc, cur))
    ELSE IF Head(s) = "/"
         THEN SplitParts(Tail(s), <<>>, IF cur = <<>> THEN acc ELSE Append(acc, cur))
         ELSE SplitParts(Tail(s), Append(cur, Head(s)), acc)

\* the literals of should_skip
S_cart     == <<"/", "c", "a", "r", "t">>
S_checkout == <<"/", "c", "h", "e", "c", "k", "o", "u", "t">>
S_account  == <<"/", "a", "c", "c", "o", "u", "n", "t">>
S_orders   == <<"/", "o", "r", "d", "e", "r", "s">>
S_apps     == <<"/", "a", "p", "p", "s", "/">>
S_admin    == <<"/", "a", "d", "m", "i", "n">>
S_tools    == <<"/", "t", "o", "o", "l", "s", "/">>
S_custauth == <<"/", "c", "u", "s", "t", "o", "m", "e", "r", "_",
                "a", "u", "t", "h", "e", "n", "t", "i", "c", "a", "t", "i", "o", "n", "/">>
S_policies == <<"/", "p", "o", "l", "i", "c", "i", "e", "s", "/">>
S_blogs    == <<"b", "l", "o", "g", "s">>
S_noindex  == <<"n", "o", "i", "n", "d", "e", "x">>
S_NOINDEX  == <<"N", "O", "I", "N", "D", "E", "X">>

\* -------------------------------------------------------------------- URLs
Url(host, path, query) ==
    [scheme |-> "https", host |-> host, path |-> path, query |-> query]

\* an href as written in the page: kind "path" is an absolute-path reference
\* ("/x?q#f"), "abs" a full https URL, "abs_http" a full http URL, "netloc"
\* a scheme-relative reference ("//host/x"), "rel" a relative path ("x.png"),
\* "bad" a string urlsplit() rejects (e.g. "http://[bad"), "empty" the
\* empty string
Href(kind, host, path, query, frag) ==
    [kind |-> kind, host |-> host, path |-> path, query |-> query, frag |-> frag]

\* the base path up to and with its last "/": what urljoin keeps of it
\* for a relative path
RECURSIVE DirOf(_)
DirOf(p) ==
    IF p = <<>> THEN <<"/">>
    ELSE IF p[Len(p)] = "/" THEN p
    ELSE DirOf(SubSeq(p, 1, Len(p) - 1))

\* normalize_url: urljoin, drop the fragment; raised = urljoin/urlparse threw
normalize_url(href, base) ==
    CASE href.kind = "empty" -> [raised |-> FALSE, url |-> base]
      [] href.kind = "bad"   -> [raised |-> TRUE,  url |-> base]
      [] href.kind = "abs"   -> [raised |-> FALSE,
                                 url |-> Url(href.host, href.path, href.query)]
      [] href.kind = "abs_http" -> [raised |-> FALSE,
                                 url |-> [scheme |-> "http", host |-> href.host,
                                          path |-> href.path, query |-> href.query]]
      [] href.kind = "netloc" -> [raised |-> FALSE,
                                 url |-> [scheme |-> base.scheme, host |-> href.host,
                                          path |-> href.path, query |-> href.query]]
      [] href.kind = "rel"   -> [raised |-> FALSE,
                                 url |-> [scheme |-> base.scheme, host |-> base.host,
                                          path |-> DirOf(base.path) \o href.path,
                                          query |-> href.query]]
      [] OTHER               -> [raised |-> FALSE,
                                 url |-> [scheme |-> base.scheme, host |-> base.host,
                                          path |-> href.path, query |-> href.query]]

strip_params(u) == [u EXCEPT !.query = ""]

\* a slip that would always end in the except branch
host_of_failed(u) == <<>>

host_of(u) == Lower(u.host)

\* a slip that would test the robots directives before the path rules
should_skip_robots_first(u, meta_robots, x_robots) ==
    LET path  == IF u.path = <<>> THEN <<"/">> ELSE u.path
        low   == Lower(path)
        parts == SplitParts(low, <<>>, <<>>)
    IN  IF Contains(Lower(meta_robots), S_noindex) \/ Contains(Lower(x_robots), S_noindex)
          THEN [skip |-> TRUE, reason |-> "Noindex"]
        ELSE IF StartsWith(low, S_cart) \/ StartsWith(low, S_checkout)
          THEN [skip |-> TRUE, reason |-> "Cart/Checkout"]
        ELSE IF StartsWith(low, S_account) \/ StartsWith(low, S_orders)
          THEN [skip |-> TRUE, reason |-> "Account"]
        ELSE IF StartsWith(low, S_apps) \/ StartsWith(low, S_admin)
                \/ StartsWith(low, S_tools)
          THEN [skip |-> TRUE, reason |-> "Admin/Apps"]
        ELSE IF StartsWith(low, S_custauth)
          THEN [skip |-> TRUE, reason |-> "Auth redirect"]
        ELSE IF StartsWith(low, S_policies)
          THEN [skip |-> TRUE, reason |-> "Policies"]
        ELSE IF Len(parts) = 2 /\ parts[1] = S_blogs
          THEN [skip |-> TRUE, reason |-> "Blog index"]
        ELSE [skip |-> FALSE, reason |-> ""]

\* a slip that would compare the robots directives case-sensitively
should_skip_case_sensitive(u, meta_robots, x_robots) ==
    LET path  == IF u.path = <<>> THEN <<"/">> ELSE u.path
        low   == Lower(path)
        parts == SplitParts(low, <<>>, <<>>)
    IN  IF StartsWith(low, S_cart) \/ StartsWith(low, S_checkout)
          THEN [skip |-> TRUE, reason |-> "Cart/Checkout"]
        ELSE IF StartsWith(low, S_account) \/ StartsWith(low, S_orders)
          THEN [skip |-> TRUE, reason |-> "Account"]
        ELSE IF StartsWith(low, S_apps) \/ StartsWith(low, S_admin)
                \/ StartsWith(low, S_tools)
          THEN [skip |-> TRUE, reason |-> "Admin/Apps"]
        ELSE IF StartsWith(low, S_custauth)
          THEN [skip |-> TRUE, reason |-> "Auth redirect"]
        ELSE IF StartsWith(low, S_policies)
          THEN [skip |-> TRUE, reason |-> "Policies"]
        ELSE IF Len(parts) = 2 /\ parts[1] = S_blogs
          THEN [skip |-> TRUE, reason |-> "Blog index"]
        ELSE IF Contains(meta_robots, S_noindex) \/ Contains(x_robots, S_noindex)
          THEN [skip |-> TRUE, reason |-> "Noindex"]
        ELSE [skip |-> FALSE, reason |-> ""]

\* a slip that would always leave by the first return
should_skip_never(u, meta_robots, x_robots) == [skip |-> FALSE, reason |-> ""]

should_skip(u, meta_robots, x_robots) ==
    LET path  == IF u.path = <<>> THEN <<"/">> ELSE u.path
        low   == Lower(path)
        parts == SplitParts(low, <<>>, <<>>)
        mr    == Lower(meta_robots)
        xr    == Lower(x_robots)
    IN  IF StartsWith(low, S_cart) \/ StartsWith(low, S_checkout)
          THEN [skip |-> TRUE, reason |-> "Cart/Checkout"]
        ELSE IF StartsWith(low, S_account) \/ StartsWith(low, S_orders)
          THEN [skip |-> TRUE, reason |-> "Account"]
        ELSE IF StartsWith(low, S_apps) \/ StartsWith(low, S_admin)
                \/ StartsWith(low, S_tools)
          THEN [skip |-> TRUE, reason |-> "Admin/Apps"]
        ELSE IF StartsWith(low, S_custauth)
          THEN [skip |-> TRUE, reason |-> "Auth redirect"]
        ELSE IF StartsWith(low, S_policies)
          THEN [skip |-> TRUE, reason |-> "Policies"]
        ELSE IF Len(parts) = 2 /\ parts[1] = S_blogs
          THEN [skip |-> TRUE, reason |-> "Blog index"]
        ELSE IF Contains(mr, S_noindex) \/ Contains(xr, S_noindex)
          THEN [skip |-> TRUE, reason |-> "Noindex"]
        ELSE [skip |-> FALSE, reason |-> ""]

\* ------------------------------------------------------ the crawled site
H_site == <<"s", ".", "i", "o">>
H_cdn  == <<"c", "d", "n", ".", "i", "o">>

P_root == <<"/">>
P_a    == <<"/", "p", "r", "o", "d", "u", "c", "t", "s", "/", "a">>
P_b    == <<"/", "p", "r", "o", "d", "u", "c", "t", "s", "/", "b">>
P_d    == <<"/", "p", "r", "o", "d", "u", "c", "t", "s", "/", "d">>
P_x    == <<"/", "x">>

uHome == Url(H_site, P_root, "")
uA    == Url(H_site, P_a, "")
uAq   == Url(H_site, P_a, "v=1")
uB    == Url(H_site, P_b, "")
uD    == Url(H_site, P_d, "")
uCart == Url(H_site, S_cart, "")

hA    == Href("path", <<>>, P_a, "", "")
hAq   == Href("path", <<>>, P_a, "v=1", "")
hAf   == Href("path", <<>>, P_a, "", "top")
hB    == Href("path", <<>>, P_b, "", "")
hD    == Href("path", <<>>, P_d, "", "")
hCart == Href("path", <<>>, S_cart, "", "")
hHome == Href("path", <<>>, P_root, "", "")
hExt  == Href("abs", H_cdn, P_x, "", "")
hBad  == Href("bad", <<>>, <<>>, "", "")
\* the product A written as a full URL with the host in capitals
H_SITE_CAPS == <<"S", ".", "I", "O">>
hAcaps == Href("abs", H_SITE_CAPS, P_a, "", "")

\* a <link rel="alternate" hreflang=lang href=href>
Alt(lang, href) == [lang |-> lang, href |-> href]

\* what a response can hold: its <a href> values in document order, its
\* <img> sources, its hreflang alternates, the content of its meta robots
\* element and its X-Robots-Tag header
Body(links, imgs, alts, meta_robots, x_robots_tag) ==
    [links |-> links, imgs |-> imgs, alts |-> alts,
     meta_robots |-> meta_robots, x_robots_tag |-> x_robots_tag]

Bodies ==
    { Body(<<>>,                <<>>,     <<>>, <<>>, <<>>),
      Body(<<hA, hCart>>,       <<>>,     <<>>, <<>>, <<>>),
      Body(<<hA, hB>>,          <<>>,     <<Alt("fr", hAf)>>, <<>>, <<>>),
      Body(<<hD>>,              <<>>,     <<>>, S_noindex, <<>>),
      Body(<<hAf, hAq, hA>>,    <<>>,     <<>>, <<>>, S_NOINDEX),
      Body(<<hB, hBad, hCart>>, <<>>,     <<>>, <<>>, <<>>),
      Body(<<hHome, hExt, hD>>, <<>>,     <<Alt("", hA), Alt("de", hExt)>>, <<>>, <<>>),
      Body(<<hB>>,              <<hBad>>, <<Alt("fr", hB)>>, <<>>, <<>>),
      Body(<<hAcaps, hExt>>,    <<>>,     <<>>, <<>>, <<>>) }

\* the home page (requested as the start URL) and the two products carry
\* any of the bodies; the pages behind them (the variant, the collection,
\* the product under the host in capitals) carry one of three
LeafBodies ==
    { Body(<<>>,       <<>>,     <<>>, <<>>, <<>>),
      Body(<<hA, hB>>, <<>>,     <<Alt("fr", hAf)>>, <<>>, <<>>),
      Body(<<hB>>,     <<hBad>>, <<Alt("fr", hB)>>, <<>>, <<>>) }

BodiesAt(u) == IF u \in {Url(H_site, <<>>, ""), uA, uB} THEN Bodies ELSE LeafBodies

\* requests sends "https://host" as "https://host/" (r.url carries the
\* slash) and the host in lower case
Prepared(u) ==
    [u EXCEPT !.host = Lower(@), !.path = IF @ = <<>> THEN P_root ELSE @]

\* r.url after allow_redirects=True: the prepared URL, or where the site
\* redirects it
Finals(u) ==
    {Prepared(u)} \cup (IF u = uB THEN {uA} ELSE {})
                  \cup (IF u = uD THEN {uCart} ELSE {})

\* the outcomes of one GET: session.get raises (timeout, connection error)
\* or a response arrives
Responses(u) ==
    { [fail |-> TRUE, final |-> u, links |-> <<>>, imgs |-> <<>>, alts |-> <<>>,
       meta_robots |-> <<>>, x_robots_tag |-> <<>>] }
    \cup { [fail |-> FALSE, final |-> f, links |-> b.links, imgs |-> b.imgs,
             alts |-> b.alts, meta_robots |-> b.meta_robots,
             x_robots_tag |-> b.x_robots_tag] :
             f \in Finals(u), b \in BodiesAt(u) }

\* -------------------------------------------------------------- the state
VARIABLES
    max_pages, max_depth, include_params,   \* Auditor configuration
    pages,          \* self.pages : final URL -> PageRecord
    edges,          \* self.edges : list of Edge
    seen,           \* crawl(): seen
    q,              \* crawl(): q, a FIFO of <<url, depth>>
    pc,             \* where crawl() is: "crawl", "done", "raised"
    served,         \* the site snapshot: requested URL -> response given
    fetchlog,       \* the calls of fetch_page, in order: [url, depth]
    enqlog,         \* the URLs given to q.put, in order
    exact_text,     \* self.exact_text : body hash -> list of final URLs
    hreflang_map,   \* self.hreflang_map : final URL -> list of <<lang, URL>>
    call,           \* the function under study and its arguments
    ret             \* what that function returned, once it has

vars == <<max_pages, max_depth, include_params, pages, edges, seen, q, pc,
          served, fetchlog, enqlog, exact_text, hreflang_map, call, ret>>

None == 0     \* status=None

RStripSlash(path) ==
    IF path # <<>> /\ path[Len(path)] = "/" THEN SubSeq(path, 1, Len(path) - 1) ELSE path

\* --store https://s.io/ ; Auditor.__init__ keeps start_url.rstrip("/")
Store == Url(H_site, P_root, "")
start_url == [Store EXCEPT !.path = RStripSlash(@)]
host == host_of(start_url)

\* (meta_robots and x_robots_tag unset read as the empty string, as the
\* exporter reads them)
PageRecord(url, final_url, status) ==
    [url |-> url, final_url |-> final_url, status |-> status,
     inlinks |-> 0, outlinks |-> 0, body_hash |-> <<>>,
     meta_robots |-> <<>>, x_robots_tag |-> <<>>]

Edge(source, target) == [source |-> source, target |-> target]

\* a slip that would swap the two branches of the dedupe key
DedupeKeySwapped(u, ip) == IF ip THEN strip_params(u) ELSE u

\* the key kept in seen: "absu if self.include_params else strip_params(absu)"
DedupeKey(u, ip) == IF ip THEN u ELSE strip_params(u)

\* a slip that would make the frontier a stack
QPutFront(queue, item) == <<item>> \o queue

\* a slip that would count the new depth twice
QPutDeeper(queue, item) == Append(queue, <<item[1], item[2] + 1>>)

\* queue.Queue: put at the tail, get from the head
QPut(queue, item) == Append(queue, item)
QGet(queue) == [item |-> Head(queue), rest |-> Tail(queue)]

Init ==
    /\ max_pages \in 0..MaxPagesBound
    /\ max_depth \in 0..MaxDepthBound
    /\ include_params \in BOOLEAN
    /\ pages = << >>
    /\ edges = << >>
    /\ q = << <<start_url, 0>> >>
    /\ seen = {DedupeKey(start_url, include_params)}
    /\ pc = "crawl"
    /\ served = << >>
    /\ fetchlog = << >>
    /\ enqlog = <<start_url>>
    /\ exact_text = << >>
    /\ hreflang_map = << >>
    /\ call = [fn |-> "crawl"]
    /\ ret = [done |-> FALSE]

\* a slip that would give the error record a status
ExceptBranchWithStatus(u) == [rec |-> PageRecord(u, u, 200), links |-> <<>>]

\* the except branch of crawl(): "record minimal error page"
ExceptBranch(u) == [rec |-> PageRecord(u, u, None), links |-> <<>>]

\* soup.get_text(" ", strip=True) of the crawled page: what the document shows
body_text(resp) == [links |-> resp.links, imgs |-> resp.imgs]

\* hash_text: the SHA-1 hex digest, taken as collision free (the digest of a
\* text is the 1-tuple holding it; <<>> stands for body_hash = None)
hash_text(txt) == <<txt>>

Put(f, k, v) == [x \in (DOMAIN f) \cup {k} |-> IF x = k THEN v ELSE f[x]]

\* defaultdict(list): the list kept under k, the empty list when k is new
Bucket(f, k) == IF k \in DOMAIN f THEN f[k] ELSE <<>>

\* the "# hreflang" loop of fetch_page from alternate i on; st carries
\* self.hreflang_map and whether normalize_url raised
RECURSIVE HreflangLoop(_, _, _)
HreflangLoop(alts, final_u, st) ==
    IF alts = <<>> THEN st
    ELSE IF Head(alts).lang = "" \/ Head(alts).href.kind = "empty"
    THEN HreflangLoop(Tail(alts), final_u, st)
    ELSE LET n == normalize_url(Head(alts).href, final_u) IN
         IF n.raised THEN [st EXCEPT !.raised = TRUE]
         ELSE HreflangLoop(Tail(alts), final_u,
                  [st EXCEPT !.map = Put(@, final_u,
                       Append(Bucket(@, final_u), <<Head(alts).lang, n.url>>))])

\* fetch_page: the record and the links, or raised when session.get or the
\* normalizing of an hreflang href or of an <img> source threw; exact and
\* hreflang are self.exact_text and self.hreflang_map as the call leaves
\* them (the hreflang loop comes first, the append of line 330 comes before
\* the <img> loop)
fetch_page(u, resp) ==
    LET imgraise == \E i \in DOMAIN resp.imgs :
                        resp.imgs[i].kind # "empty"
                        /\ normalize_url(resp.imgs[i], resp.final).raised
        hl       == HreflangLoop(resp.alts, resp.final,
                                 [raised |-> FALSE, map |-> hreflang_map])
        h        == hash_text(body_text(resp))
        appended == Put(exact_text, h, Append(Bucket(exact_text, h), resp.final))
    IN  IF resp.fail
        THEN [raised |-> TRUE, rec |-> PageRecord(u, u, None), links |-> <<>>,
              exact |-> exact_text, hreflang |-> hreflang_map]
        ELSE IF hl.raised
        THEN [raised |-> TRUE, rec |-> PageRecord(u, u, None), links |-> <<>>,
              exact |-> exact_text, hreflang |-> hl.map]
        ELSE IF imgraise
        THEN [raised |-> TRUE, rec |-> PageRecord(u, u, None), links |-> <<>>,
              exact |-> appended, hreflang |-> hl.map]
        ELSE [raised |-> FALSE,
              rec |-> [PageRecord(u, resp.final, 200) EXCEPT
                         !.body_hash = h,
                         !.meta_robots = resp.meta_robots,
                         !.x_robots_tag = resp.x_robots_tag],
              links |-> resp.links, exact |-> appended, hreflang |-> hl.map]

\* the "queue links" loop of crawl() from link i on; st carries seen, q,
\* edges, the q.put log and whether normalize_url raised
RECURSIVE QueueLinks(_, _, _, _, _)
QueueLinks(links, src, depth, ip, st) ==
    IF links = <<>> THEN st
    ELSE LET n == normalize_url(Head(links), src) IN
         IF n.raised THEN [st EXCEPT !.raised = TRUE]
         ELSE LET absu == n.url IN
              IF host_of(absu) # host
              THEN QueueLinks(Tail(links), src, depth, ip, st)
              ELSE LET key == DedupeKey(absu, ip)
                       put == key \notin st.seen /\ ~should_skip(absu, <<>>, <<>>).skip
                       st1 == [seen   |-> IF put THEN st.seen \cup {key} ELSE st.seen,
                               q      |-> IF put THEN QPut(st.q, <<absu, depth + 1>>) ELSE st.q,
                               enq    |-> IF put THEN Append(st.enq, absu) ELSE st.enq,
                               edges  |-> Append(st.edges, Edge(src, absu)),
                               raised |-> FALSE]
                   IN  QueueLinks(Tail(links), src, depth, ip, st1)

\* one iteration of the while loop of crawl() for the response resp
Iterate(resp) ==
    LET u     == QGet(q).item[1]
        depth == QGet(q).item[2]
        fp    == fetch_page(u, resp)
        got   == IF fp.raised THEN ExceptBranch(u) ELSE fp
        rec   == got.rec
        st0   == [seen |-> seen, q |-> QGet(q).rest, enq |-> enqlog, edges |-> edges,
                  raised |-> FALSE]
        st    == IF depth < max_depth
                 THEN QueueLinks(got.links, rec.final_url, depth, include_params, st0)
                 ELSE st0
    IN  /\ pages' = Put(pages, rec.final_url, rec)
        /\ seen' = st.seen
        /\ q' = st.q
        /\ edges' = st.edges
        /\ enqlog' = st.enq
        /\ pc' = IF st.raised THEN "raised" ELSE "crawl"
        /\ served' = Put(served, u, resp)
        /\ fetchlog' = Append(fetchlog, [url |-> u, depth |-> depth])
        /\ exact_text' = fp.exact
        /\ hreflang_map' = fp.hreflang
        /\ UNCHANGED <<max_pages, max_depth, include_params, call, ret>>

\* a slip that would leave the page cap out of the loop condition
LoopGuardNoCap == pc = "crawl" /\ q # <<>>

\* a slip that would let the loop run once more at the cap
LoopGuardOffByOne == pc = "crawl" /\ q # <<>> /\ Cardinality(DOMAIN pages) <= max_pages

\* "while not q.empty() and len(self.pages) < self.max_pages"
LoopGuard == pc = "crawl" /\ q # <<>> /\ Cardinality(DOMAIN pages) < max_pages

\* a site that may answer the same request differently each time
SnapshotAny(u, resp) == TRUE

\* the site answers the same request the same way within one snapshot
Snapshot(u, resp) == u \in DOMAIN served => resp = served[u]

\* an iteration in which fetch_page returns
CrawlFetched ==
    /\ LoopGuard
    /\ \E resp \in Responses(QGet(q).item[1]) :
         /\ Snapshot(QGet(q).item[1], resp)
         /\ ~fetch_page(QGet(q).item[1], resp).raised
         /\ Iterate(resp)

\* an iteration in which fetch_page raises and the except branch runs
CrawlFetchFailed ==
    /\ LoopGuard
    /\ \E resp \in Responses(QGet(q).item[1]) :
         /\ Snapshot(QGet(q).item[1], resp)
         /\ fetch_page(QGet(q).item[1], resp).raised
         /\ Iterate(resp)

\* collections.Counter over the sources / the targets of the edge list
\* a slip that would count the edges arriving at u as its outlinks
out_map_by_target(es, u) == Cardinality({i \in DOMAIN es : es[i].target = u})

out_map(es, u) == Cardinality({i \in DOMAIN es : es[i].source = u})
in_map(es, u)  == Cardinality({i \in DOMAIN es : es[i].target = u})

\* the loop has ended: compute in/out link counts
Backfill ==
    /\ pc = "crawl"
    /\ ~LoopGuard
    /\ pages' = [u \in DOMAIN pages |->
                   [pages[u] EXCEPT
                      !.outlinks = out_map(edges, u),
                      !.inlinks  = in_map(edges, u)]]
    /\ pc' = "done"
    /\ UNCHANGED <<max_pages, max_depth, include_params, edges, seen, q,
                   served, fetchlog, enqlog, exact_text, hreflang_map, call, ret>>

Next == CrawlFetched \/ CrawlFetchFailed \/ Backfill

Spec == Init /\ [][Next]_vars

\* ------------------------------------------------ helpers of the claims
FetchedUrls == [i \in DOMAIN fetchlog |-> fetchlog[i].url]

\* fetch_page returned for the requested URL u (it was served and did not raise)
FetchedOk(u) == u \in DOMAIN served /\ ~fetch_page(u, served[u]).raised

\* fetch_page raised for the requested URL u
FetchRaised(u) == u \in DOMAIN served /\ fetch_page(u, served[u]).raised

NumPages == Cardinality(DOMAIN pages)

IsPrefix(s, t) == Len(s) <= Len(t) /\ SubSeq(t, 1, Len(s)) = s

\* ---------------------------------------------------------------- claims

\* C1: in every reachable state of a crawl with page cap N >= 0 the page
\* collection holds at most N PageRecords, however many links the site has.
C1_BoundRespect == NumPages <= max_pages

\* the cap was reached while URLs were still waiting on the frontier
C1_Witness ==
    /\ pc = "done"
    /\ max_pages >= 2
    /\ NumPages = max_pages
    /\ Len(q) >= 1

\* C2: within one run each dedupe key (the URL without its query, or the
\* full URL under include_params) is put on the frontier at most once, and
\* no URL is passed to the fetcher twice.
C2_FrontierDedup ==
    /\ \A i, j \in DOMAIN enqlog :
         i # j => (IF include_params THEN enqlog[i] ELSE strip_params(enqlog[i]))
                  # (IF include_params THEN enqlog[j] ELSE strip_params(enqlog[j]))
    /\ \A i, j \in DOMAIN fetchlog : i # j => fetchlog[i].url # fetchlog[j].url

\* a page linking three times to one product (with a fragment, with a query,
\* plain) was crawled without include_params and the product was fetched
C2_Witness ==
    /\ pc = "done"
    /\ ~include_params
    /\ \E u \in DOMAIN served : FetchedOk(u) /\ served[u].links = <<hAf, hAq, hA>>
    /\ \E i \in DOMAIN fetchlog : fetchlog[i].url = uA
    /\ Len(edges) >= 3

\* the final URL of the fetch of u: r.url, or u itself when session.get raised
FinalOf(u) == IF served[u].fail THEN u ELSE served[u].final

\* C3: at the end of a run there is one PageRecord per final URL and no
\* final URL was fetched more than once, whichever requested URL led to it
\* (the seeded start URL included).
C3_OneFetchPerFinalUrl ==
    pc = "done" =>
        /\ \A k \in DOMAIN pages : pages[k].final_url = k
        /\ \A i, j \in DOMAIN fetchlog :
             i # j => FinalOf(fetchlog[i].url) # FinalOf(fetchlog[j].url)

\* C4: for every fetched page, at any depth including max_depth, every
\* same-host link found on it adds an Edge from the page to the link's target.
C4_EdgesAtAnyDepth ==
    \A u \in DOMAIN served :
        (FetchedOk(u) /\ \A i \in DOMAIN served[u].links :
                            ~normalize_url(served[u].links[i], served[u].final).raised)
        => \A i \in DOMAIN served[u].links :
             LET absu == normalize_url(served[u].links[i], served[u].final).url
             IN  host_of(absu) = host
                 => \E n \in DOMAIN edges :
                       edges[n] = Edge(served[u].final, absu)

\* C5 (as stated): once the number of PageRecords has reached the cap no URL
\* is added to the frontier, neither by the iteration that reaches the cap
\* nor by any later step.
C5_NoEnqueueAtCap ==
    [][Cardinality(DOMAIN pages') >= max_pages => enqlog' = enqlog]_vars

\* C5 (amended): once the number of PageRecords has reached the cap no later
\* iteration runs, so nothing more is fetched or put on the frontier; the
\* iteration that reaches the cap still processes the links of its page.
C5_NoStepAfterCap ==
    [][NumPages >= max_pages
        => fetchlog' = fetchlog /\ enqlog' = enqlog /\ q' = q /\ edges' = edges]_vars

\* the page that reached the cap put URLs on the frontier; they stay unfetched
C5_Witness ==
    /\ pc = "done"
    /\ max_pages >= 1
    /\ NumPages = max_pages
    /\ Len(fetchlog) = max_pages
    /\ Len(enqlog) > Len(fetchlog)
    /\ Len(q) = Len(enqlog) - Len(fetchlog)

\* the site of the breadth-ordering scenario: A (the start page) links to B
\* then C, B links to D
SiteABCD(u) ==
    CASE u = start_url -> [fail |-> FALSE, final |-> uHome, links |-> <<hA, hB>>, imgs |-> <<>>]
      [] u = uA        -> [fail |-> FALSE, final |-> uA,    links |-> <<hD>>,     imgs |-> <<>>]
      [] u = uB        -> [fail |-> FALSE, final |-> uB,    links |-> <<>>,       imgs |-> <<>>]
      [] OTHER         -> [fail |-> FALSE, final |-> u,     links |-> <<>>,       imgs |-> <<>>]

OnSiteABCD ==
    \A u \in DOMAIN served :
        [fail |-> served[u].fail, final |-> served[u].final,
         links |-> served[u].links, imgs |-> served[u].imgs] = SiteABCD(u)

\* C6: the frontier is FIFO: URLs are fetched in the order they were
\* enqueued, the depths of successive fetches never decrease, and on the
\* site A -> B, C; B -> D a crawl from A with max depth >= 2 fetches
\* A, B, C, D in that order (all four once the page cap allows four pages).
C6_BreadthOrder ==
    /\ IsPrefix(FetchedUrls, enqlog)
    /\ \A i, j \in DOMAIN fetchlog : i < j => fetchlog[i].depth <= fetchlog[j].depth
    /\ (OnSiteABCD /\ max_depth >= 2)
         => /\ IsPrefix(FetchedUrls, <<start_url, uA, uB, uD>>)
            /\ (pc = "done" /\ max_pages >= 4)
                 => FetchedUrls = <<start_url, uA, uB, uD>>

\* the crawl of the scenario site has fetched all four pages
C6_Witness ==
    /\ pc = "done"
    /\ OnSiteABCD
    /\ max_depth >= 2
    /\ Len(fetchlog) = 4
    /\ fetchlog[4] = [url |-> uD, depth |-> 2]

\* the depth at which u was fetched
DepthOf(u) == fetchlog[CHOOSE i \in DOMAIN fetchlog : fetchlog[i].url = u].depth

\* C7: a same-host link to a URL the path rules mark as noise, found on a
\* page at depth < max_depth, is never enqueued or fetched and gets no
\* PageRecord, yet an Edge from the page to it is recorded; a crawl of a home
\* page linking to /products/a and /cart with max depth 1 ends with the two
\* PageRecords home and /products/a and the two Edges home -> /products/a,
\* home -> /cart.
C7_NoiseLinkEdgeOnly ==
    /\ \A u \in DOMAIN served :
         (FetchedOk(u) /\ DepthOf(u) < max_depth)
         => \A i \in DOMAIN served[u].links :
              LET n == normalize_url(served[u].links[i], served[u].final)
              IN  (~n.raised /\ host_of(n.url) = host
                     /\ should_skip(n.url, <<>>, <<>>).skip)
                  => /\ \A j \in DOMAIN enqlog : enqlog[j] # n.url
                     /\ \A j \in DOMAIN fetchlog : fetchlog[j].url # n.url
                     /\ \A k \in DOMAIN pages : pages[k].url # n.url
                     /\ \E e \in DOMAIN edges :
                           edges[e] = Edge(served[u].final, n.url)
    /\ ( /\ pc = "done"
         /\ max_depth = 1
         /\ max_pages >= 2
         /\ FetchedOk(start_url)
         /\ served[start_url].links = <<hA, hCart>>
         /\ FetchedOk(uA)
         /\ served[uA].final = uA )
       => /\ DOMAIN pages = {uHome, uA}
          /\ edges = <<Edge(uHome, uA), Edge(uHome, uCart)>>

\* C8: a malformed href among the links or image sources of a fetched page
\* makes only that one link be skipped: nothing is raised out of the crawl,
\* the page keeps the status fetched for it and the other same-host links of
\* the page still get their Edges.
C8_MalformedHrefSkipped ==
    /\ pc # "raised"
    /\ \A u \in DOMAIN served :
         ~served[u].fail
         => /\ \A k \in DOMAIN pages : pages[k].url = u => pages[k].status = 200
            /\ DepthOf(u) < max_depth
               => \A i \in DOMAIN served[u].links :
                    LET n == normalize_url(served[u].links[i], served[u].final)
                    IN  (~n.raised /\ host_of(n.url) = host)
                        => \E e \in DOMAIN edges :
                              edges[e] = Edge(served[u].final, n.url)

\* C9: when the fetch of a dequeued URL raises, the crawl stores a
\* PageRecord for that URL with status unset, records no Edge and enqueues
\* nothing for it and goes on with the rest of the frontier; when the start
\* URL is the one that fails, the run ends with that one record and no Edge.
C9_FetchFailureRecorded ==
    /\ [][LET u == QGet(q).item[1]
          IN  (fetchlog' # fetchlog /\ fetch_page(u, served'[u]).raised)
              => /\ u \in DOMAIN pages'
                 /\ pages'[u] = PageRecord(u, u, None)
                 /\ edges' = edges
                 /\ enqlog' = enqlog
                 /\ q' = QGet(q).rest
                 /\ pc' = "crawl"]_vars
    /\ [](( pc = "done" /\ FetchRaised(start_url))
            => /\ DOMAIN pages = {start_url}
               /\ pages[start_url] = PageRecord(start_url, start_url, None)
               /\ edges = <<>>
               /\ Len(fetchlog) = 1)

\* a fetch failed in the middle of the crawl and a later URL was still fetched
C9_Witness ==
    /\ pc = "done"
    /\ \E i, j \in DOMAIN fetchlog :
         /\ 1 < i /\ i < j
         /\ FetchRaised(fetchlog[i].url)
         /\ pages[fetchlog[i].url].status = None
         /\ FetchedOk(fetchlog[j].url)

\* C10: every URL that was dequeued and fetched, successfully or not, has at
\* the end of the run a PageRecord whose requested URL is that URL, and a
\* stored PageRecord is never removed or replaced.
C10_RecordPerFetchedUrl ==
    /\ [](pc = "done"
            => \A i \in DOMAIN fetchlog :
                 \E k \in DOMAIN pages : pages[k].url = fetchlog[i].url)
    /\ [][\A k \in DOMAIN pages :
            /\ k \in DOMAIN pages'
            /\ pages'[k].url = pages[k].url
            /\ pages'[k].status = pages[k].status]_vars

\* ------------------------------------------------------- export_workbook
RECURSIVE KeptUrls(_, _)
\* the "kept" list of the Duplicates Exact loop: the URLs of a bucket that
\* the noise policy does not drop
KeptUrls(urls, noise_policy) ==
    IF urls = <<>> THEN <<>>
    ELSE IF should_skip(Head(urls), <<>>, <<>>).skip /\ noise_policy = "exclude"
         THEN KeptUrls(Tail(urls), noise_policy)
         ELSE <<Head(urls)>> \o KeptUrls(Tail(urls), noise_policy)

\* the clusters written to the Duplicates Exact sheet: hash -> kept URLs
DupExactClusters(noise_policy) ==
    { [hash |-> h, urls |-> KeptUrls(exact_text[h], noise_policy)] :
        h \in {x \in DOMAIN exact_text :
                 Len(KeptUrls(exact_text[x], noise_policy)) > 1} }

SeqRange(s) == {s[i] : i \in DOMAIN s}

\* C11: after the crawl the bucket of the body-hash mapping for hash h lists
\* exactly the pages whose body hash is h, each page once, so that every
\* bucket of two or more entries, and every cluster of the Duplicates Exact
\* table, holds at least two distinct pages.
C11_BucketsListPagesOnce ==
    pc = "done" =>
        /\ \A h \in DOMAIN exact_text :
             /\ SeqRange(exact_text[h]) = {k \in DOMAIN pages : pages[k].body_hash = h}
             /\ Cardinality(SeqRange(exact_text[h])) = Len(exact_text[h])
        /\ \A k \in DOMAIN pages :
             pages[k].body_hash # <<>> => pages[k].body_hash \in DOMAIN exact_text
        /\ \A policy \in {"label", "exclude"} :
             \A c \in DupExactClusters(policy) : Cardinality(SeqRange(c.urls)) >= 2

\* ------------------------------------------- should_skip on its own
\* the crawl variables while a single function is studied: nothing crawled
IdleCrawl ==
    /\ max_pages = 0
    /\ max_depth = 0
    /\ include_params = FALSE
    /\ pages = << >>
    /\ edges = << >>
    /\ q = << >>
    /\ seen = {}
    /\ pc = "idle"
    /\ served = << >>
    /\ fetchlog = << >>
    /\ enqlog = << >>
    /\ exact_text = << >>
    /\ hreflang_map = << >>

crawlVars == <<max_pages, max_depth, include_params, pages, edges, seen, q, pc,
               served, fetchlog, enqlog, exact_text, hreflang_map>>

\* paths the classifier is given: final URLs of pages and link targets
ClassifyPaths ==
    { <<>>, P_root, P_a, S_cart,
      S_cart \o <<"/", "x">>,                       \* /cart/x
      <<"/", "C", "a", "r", "t">>,                  \* /Cart
      S_cart \o <<"o", "o", "n">>,                  \* /cartoon
      S_checkout, S_account \o <<"/", "x">>, S_orders,
      S_apps \o <<"x">>, <<"/", "a", "p", "p", "s">>, S_admin, S_tools \o <<"x">>,
      S_custauth \o <<"x">>, S_policies \o <<"x">>,
      <<"/">> \o S_blogs,                           \* /blogs
      <<"/">> \o S_blogs \o <<"/", "n">>,           \* /blogs/n
      <<"/">> \o S_blogs \o <<"/", "n", "/">>,      \* /blogs/n/
      <<"/">> \o S_blogs \o <<"/", "n", "/", "p">>, \* /blogs/n/p
      <<"/", "x", "/">> \o S_blogs }                \* /x/blogs

\* values of the meta robots content and of the X-Robots-Tag header
RobotsValues ==
    { <<>>, S_noindex, S_NOINDEX,
      <<"N", "o", "I", "n", "d", "e", "x">>,
      <<"i", "n", "d", "e", "x">>,
      <<"a", ",">> \o S_noindex \o <<",", "x">>,
      <<"n", "o", "n", "e">> }

ClassifyCalls ==
    { [fn |-> "should_skip", u |-> Url(H_site, p, ""), meta_robots |-> mr, x_robots |-> xr] :
        p \in ClassifyPaths, mr \in RobotsValues, xr \in RobotsValues }

InitClassify == IdleCrawl /\ call \in ClassifyCalls /\ ret = [done |-> FALSE]

Classify ==
    /\ call.fn = "should_skip"
    /\ ~ret.done
    /\ ret' = [done |-> TRUE, val |-> should_skip(call.u, call.meta_robots, call.x_robots)]
    /\ UNCHANGED <<crawlVars, call>>

SpecClassify == InitClassify /\ [][Classify]_vars

\* the rules as the specification lists them, each with its own test of the
\* lower-cased path ("/" for an empty path)
RuleOrder == <<"Cart/Checkout", "Account", "Admin/Apps", "Auth redirect",
               "Policies", "Blog index", "Noindex">>

NoindexAnyCase(s) ==
    \E i \in 0..(Len(s) - 7) :
        \A j \in 1..7 : s[i + j] \in {S_noindex[j], S_NOINDEX[j]}

RuleMatches(n, c) ==
    LET low == Lower(IF c.u.path = <<>> THEN P_root ELSE c.u.path)
        segs == SplitParts(low, <<>>, <<>>)
        Under(pre) == StartsWith(low, pre)
    IN  CASE n = 1 -> Under(S_cart) \/ Under(S_checkout)
          [] n = 2 -> Under(S_account) \/ Under(S_orders)
          [] n = 3 -> Under(S_apps) \/ Under(S_admin) \/ Under(S_tools)
          [] n = 4 -> Under(S_custauth)
          [] n = 5 -> Under(S_policies)
          [] n = 6 -> Len(segs) = 2 /\ segs[1] = S_blogs
          [] n = 7 -> NoindexAnyCase(c.meta_robots) \/ NoindexAnyCase(c.x_robots)

\* C12: should_skip applies its rules in the order Cart/Checkout, Account,
\* Admin/Apps, Auth redirect, Policies, Blog index, Noindex and returns the
\* reason of the first rule that matches; a URL whose path is under /cart
\* gets (true, "Cart/Checkout") whatever the robots strings hold.
C12_FirstMatchWins ==
    ret.done =>
        /\ \A n \in 1..7 :
             (RuleMatches(n, call) /\ \A m \in 1..(n - 1) : ~RuleMatches(m, call))
             => ret.val = [skip |-> TRUE, reason |-> RuleOrder[n]]
        /\ StartsWith(Lower(call.u.path), S_cart)
             => ret.val = [skip |-> TRUE, reason |-> "Cart/Checkout"]

\* /cart/x was classified with a noindex meta robots value
C12_Witness ==
    /\ ret.done
    /\ call.u.path = S_cart \o <<"/", "x">>
    /\ call.meta_robots = S_noindex
    /\ ret.val.reason = "Cart/Checkout"

\* C13: for a URL whose path matches none of the path rules 1-6, should_skip
\* returns (true, "Noindex") when meta_robots or x_robots contains "noindex"
\* in any letter case, and (false, "") otherwise.
C13_NoindexOrNotNoise ==
    (ret.done /\ \A n \in 1..6 : ~RuleMatches(n, call))
    => ret.val = IF NoindexAnyCase(call.meta_robots) \/ NoindexAnyCase(call.x_robots)
                 THEN [skip |-> TRUE, reason |-> "Noindex"]
                 ELSE [skip |-> FALSE, reason |-> ""]

\* a product URL was classified with a mixed-case noindex in the header only
C13_Witness ==
    /\ ret.done
    /\ call.u.path = P_a
    /\ call.meta_robots = <<"i", "n", "d", "e", "x">>
    /\ call.x_robots = <<"N", "o", "I", "n", "d", "e", "x">>
    /\ ret.val = [skip |-> TRUE, reason |-> "Noindex"]

\* ------------------------------------------------------------ build_issues
TITLE_MIN == 50
TITLE_MAX == 60
META_MIN == 140
META_MAX == 155

Rep(c, n) == [i \in 1..n |-> c]

\* the white space characters of the inputs
Whitespace == {" ", "\n"}

\* str.strip()
RECURSIVE LStrip(_)
LStrip(s) == IF s # <<>> /\ Head(s) \in Whitespace THEN LStrip(Tail(s)) ELSE s
RECURSIVE RStrip(_)
RStrip(s) == IF s # <<>> /\ s[Len(s)] \in Whitespace THEN RStrip(SubSeq(s, 1, Len(s) - 1)) ELSE s
Strip(s) == LStrip(RStrip(s))

\* the en dash and the em dash, one character each
EN_DASH == "ndash"
EM_DASH == "mdash"

\* re.search of the trailing-separator pattern (hyphen, en dash, em dash,
\* bar, colon, then optional white space, at the end of the title)
TrailingSeparator(title) ==
    LET t == RStrip(title)
    IN  t # <<>> /\ t[Len(t)] \in {"-", EN_DASH, EM_DASH, "|", ":"}

\* a slip that would count a title of exactly TITLE_MIN characters as short
TitleLengthItemsInclusive(tlen) ==
    IF 0 < tlen /\ tlen <= TITLE_MIN
    THEN <<[Reason |-> "Title too short", Severity |-> "Minor"]>>
    ELSE IF tlen > TITLE_MAX
    THEN <<[Reason |-> "Title too long", Severity |-> "Minor"]>>
    ELSE <<>>

\* a slip that would count a title of exactly TITLE_MAX characters as long
TitleLengthItemsMaxInclusive(tlen) ==
    IF 0 < tlen /\ tlen < TITLE_MIN
    THEN <<[Reason |-> "Title too short", Severity |-> "Minor"]>>
    ELSE IF tlen >= TITLE_MAX
    THEN <<[Reason |-> "Title too long", Severity |-> "Minor"]>>
    ELSE <<>>

\* "# Title length"
TitleLengthItems(tlen) ==
    IF 0 < tlen /\ tlen < TITLE_MIN
    THEN <<[Reason |-> "Title too short", Severity |-> "Minor"]>>
    ELSE IF tlen > TITLE_MAX
    THEN <<[Reason |-> "Title too long", Severity |-> "Minor"]>>
    ELSE <<>>

\* "# Description length"
DescLengthItems(dlen) ==
    IF 0 < dlen /\ dlen < META_MIN
    THEN <<[Reason |-> "Meta description too short", Severity |-> "Minor"]>>
    ELSE IF dlen > META_MAX
    THEN <<[Reason |-> "Meta description too long", Severity |-> "Minor"]>>
    ELSE <<>>

sev_rank(s) ==
    CASE s = "Info" -> 0 [] s = "Minor" -> 1 [] s = "Moderate" -> 2
      [] s = "Major" -> 3 [] s = "Critical" -> 4 [] OTHER -> 0

\* a slip that would take the severity of the first issue
TopSeverityFirst(items) == items[1].Severity

\* max(items, key=sev_rank)["Severity"]: the first item of the highest rank
TopSeverity(items) ==
    LET i == CHOOSE k \in DOMAIN items :
                 /\ \A j \in DOMAIN items : sev_rank(items[j].Severity) <= sev_rank(items[k].Severity)
                 /\ \A j \in 1..(k - 1) : sev_rank(items[j].Severity) < sev_rank(items[k].Severity)
    IN  items[i].Severity

\* the titles (descriptions) that more than one URL carries, lower-cased
dup_titles(pgs) ==
    { Lower(Strip(pgs[u].title)) : u \in
        { x \in DOMAIN pgs : /\ Strip(pgs[x].title) # <<>>
                             /\ \E y \in DOMAIN pgs \ {x} :
                                   Lower(Strip(pgs[y].title)) = Lower(Strip(pgs[x].title)) } }

dup_descs(pgs) ==
    { Lower(Strip(pgs[u].meta_description)) : u \in
        { x \in DOMAIN pgs : /\ Strip(pgs[x].meta_description) # <<>>
                             /\ \E y \in DOMAIN pgs \ {x} :
                                   Lower(Strip(pgs[y].meta_description))
                                     = Lower(Strip(pgs[x].meta_description)) } }

\* the items list of one page
IssueItems(pgs, u) ==
    LET title == Strip(pgs[u].title)
        desc  == Strip(pgs[u].meta_description)
    IN  TitleLengthItems(Len(title))
        \o (IF TrailingSeparator(title)
            THEN <<[Reason |-> "Title ends with separator", Severity |-> "Minor"]>> ELSE <<>>)
        \o DescLengthItems(Len(desc))
        \o (IF Lower(Strip(title)) \in dup_titles(pgs) /\ title # <<>>
            THEN <<[Reason |-> "Duplicate title", Severity |-> "Moderate"]>> ELSE <<>>)
        \o (IF Lower(Strip(desc)) \in dup_descs(pgs) /\ desc # <<>>
            THEN <<[Reason |-> "Duplicate meta description", Severity |-> "Minor"]>> ELSE <<>>)

\* build_issues: URL -> {"Top Severity": top} followed by the items, for the
\* pages that have items (the Details texts are left out)
build_issues(pgs) ==
    [u \in {x \in DOMAIN pgs : IssueItems(pgs, x) # <<>>} |->
        <<[TopSeverity |-> TopSeverity(IssueItems(pgs, u))]>> \o IssueItems(pgs, u)]

\* titles and descriptions as fetch_page stores them ("" when absent)
IssueTitles ==
    { Rep("a", n) : n \in {0, 1, 49, 50, 60, 61} }
    \cup { Rep("A", 50),
           Rep("a", 52) \o <<" ", "-">>,
           Rep("b", 60) \o <<"|">> }

IssueDescs ==
    { Rep("d", n) : n \in {0, 139, 140, 155, 156} } \cup { Rep("D", 140) }

IssueUrls == {uA, uB}

IssueCalls ==
    { [fn |-> "build_issues", pages |-> pgs] :
        pgs \in [IssueUrls -> [title : IssueTitles, meta_description : IssueDescs]] }

InitIssues == IdleCrawl /\ call \in IssueCalls /\ ret = [done |-> FALSE]

BuildIssues ==
    /\ call.fn = "build_issues"
    /\ ~ret.done
    /\ ret' = [done |-> TRUE, val |-> build_issues(call.pages)]
    /\ UNCHANGED <<crawlVars, call>>

SpecIssues == InitIssues /\ [][BuildIssues]_vars

\* the issue rows of page u in the returned map, without the leading
\* Top Severity entry
IssuesOf(u) == IF u \in DOMAIN ret.val THEN Tail(ret.val[u]) ELSE <<>>

HasIssue(u, reason, severity) ==
    \E i \in DOMAIN IssuesOf(u) :
        IssuesOf(u)[i] = [Reason |-> reason, Severity |-> severity]

TitleLen(u) == Len(Strip(call.pages[u].title))

\* C14 (as stated): a title-length issue is reported exactly when the length
\* of the trimmed title is outside [TITLE_MIN, TITLE_MAX]: "Title too short"
\* for every length below the minimum, "Title too long" for every length
\* above the maximum, each Minor, never both.
C14_TitleLengthOutsideBand ==
    ret.done =>
        \A u \in DOMAIN call.pages :
            /\ HasIssue(u, "Title too short", "Minor") <=> TitleLen(u) < TITLE_MIN
            /\ HasIssue(u, "Title too long", "Minor") <=> TitleLen(u) > TITLE_MAX
            /\ ~(HasIssue(u, "Title too short", "Minor") /\ HasIssue(u, "Title too long", "Minor"))
            /\ \A i \in DOMAIN IssuesOf(u) :
                 IssuesOf(u)[i].Reason \in {"Title too short", "Title too long"}
                 => IssuesOf(u)[i].Severity = "Minor"

\* C14 (amended): "Title too short" is reported exactly for the lengths
\* 1..TITLE_MIN-1 of the trimmed title, "Title too long" exactly for the
\* lengths above TITLE_MAX, each Minor, never both; an empty title gets no
\* title-length issue.
C14_TitleLengthNonEmpty ==
    ret.done =>
        \A u \in DOMAIN call.pages :
            /\ HasIssue(u, "Title too short", "Minor")
                 <=> (0 < TitleLen(u) /\ TitleLen(u) < TITLE_MIN)
            /\ HasIssue(u, "Title too long", "Minor") <=> TitleLen(u) > TITLE_MAX
            /\ ~(HasIssue(u, "Title too short", "Minor") /\ HasIssue(u, "Title too long", "Minor"))
            /\ \A i \in DOMAIN IssuesOf(u) :
                 IssuesOf(u)[i].Reason \in {"Title too short", "Title too long"}
                 => IssuesOf(u)[i].Severity = "Minor"

\* one page has an empty title and none of the two issues, the other a title
\* of one character and "Title too short"
C14_Witness ==
    /\ ret.done
    /\ call.pages[uA].title = <<>>
    /\ ~HasIssue(uA, "Title too short", "Minor")
    /\ ~HasIssue(uA, "Title too long", "Minor")
    /\ call.pages[uB].title = <<"a">>
    /\ HasIssue(uB, "Title too short", "Minor")

TitleLengthIssues(u) ==
    {IssuesOf(u)[i].Reason : i \in DOMAIN IssuesOf(u)}
        \cap {"Title too short", "Title too long"}

\* C15: with min = 50 and max = 60 a title of exactly 50 or exactly 60
\* characters gives no title-length issue, one of 49 characters gives
\* "Title too short" and one of 61 characters "Title too long".
C15_TitleBoundary ==
    ret.done =>
        \A u \in DOMAIN call.pages :
            /\ TitleLen(u) \in {50, 60} => TitleLengthIssues(u) = {}
            /\ TitleLen(u) = 49 => TitleLengthIssues(u) = {"Title too short"}
            /\ TitleLen(u) = 61 => TitleLengthIssues(u) = {"Title too long"}

\* the four boundary lengths were met: 49 and 61 on one call's pages
C15_Witness ==
    /\ ret.done
    /\ TITLE_MIN = 50 /\ TITLE_MAX = 60
    /\ TitleLen(uA) = 49 /\ TitleLengthIssues(uA) = {"Title too short"}
    /\ TitleLen(uB) = 61 /\ TitleLengthIssues(uB) = {"Title too long"}

SevOrder == <<"Info", "Minor", "Moderate", "Major", "Critical">>

RankOf(sev) == CHOOSE i \in DOMAIN SevOrder : SevOrder[i] = sev

\* a page on which none of the checks of build_issues finds anything
NoIssueExpected(u) ==
    LET t == Strip(call.pages[u].title)
        d == Strip(call.pages[u].meta_description)
    IN  /\ t = <<>> \/ (Len(t) >= TITLE_MIN /\ Len(t) <= TITLE_MAX)
        /\ t = <<>> \/ t[Len(t)] \notin {"-", EN_DASH, EM_DASH, "|", ":"}
        /\ d = <<>> \/ (Len(d) >= META_MIN /\ Len(d) <= META_MAX)
        /\ \A v \in DOMAIN call.pages \ {u} :
             /\ t = <<>> \/ Lower(Strip(call.pages[v].title)) # Lower(t)
             /\ d = <<>> \/ Lower(Strip(call.pages[v].meta_description)) # Lower(d)

\* C16: for a page with at least one issue the Top Severity is the highest
\* severity among its issues under Info < Minor < Moderate < Major <
\* Critical (never below Moderate with a Duplicate title issue); a page with
\* no issue has no entry in the issue map.
C16_TopSeverityIsMax ==
    ret.done =>
        /\ \A u \in DOMAIN ret.val :
             /\ IssuesOf(u) # <<>>
             /\ \E i \in DOMAIN IssuesOf(u) :
                  IssuesOf(u)[i].Severity = ret.val[u][1].TopSeverity
             /\ \A i \in DOMAIN IssuesOf(u) :
                  RankOf(IssuesOf(u)[i].Severity) <= RankOf(ret.val[u][1].TopSeverity)
             /\ HasIssue(u, "Duplicate title", "Moderate")
                  => RankOf(ret.val[u][1].TopSeverity) >= RankOf("Moderate")
        /\ \A u \in DOMAIN call.pages :
             NoIssueExpected(u) <=> u \notin DOMAIN ret.val

\* a page with a Minor issue first and a Duplicate title issue after it got
\* Moderate, and the other page, duplicate too, has its own entry
C16_Witness ==
    /\ ret.done
    /\ Len(IssuesOf(uA)) >= 2
    /\ IssuesOf(uA)[1].Severity = "Minor"
    /\ HasIssue(uA, "Duplicate title", "Moderate")
    /\ ret.val[uA][1].TopSeverity = "Moderate"
    /\ uB \in DOMAIN ret.val

\* ------------------------------------------------------- link counts
RECURSIVE SumOutlinks(_)
SumOutlinks(keys) ==
    IF keys = {} THEN 0
    ELSE LET k == CHOOSE x \in keys : TRUE
         IN  pages[k].outlinks + SumOutlinks(keys \ {k})

EdgesFrom(u) == {i \in DOMAIN edges : edges[i].source = u}
EdgesTo(u)   == {i \in DOMAIN edges : edges[i].target = u}

\* C17: after the crawl every PageRecord's outlink count is the number of
\* Edges whose source is the page's final URL and its inlink count the
\* number of Edges whose target is that URL; the outlink counts of all
\* pages sum to the length of the edge list.
C17_LinkCountsMatchEdges ==
    pc = "done" =>
        /\ \A k \in DOMAIN pages :
             /\ pages[k].outlinks = Cardinality(EdgesFrom(pages[k].final_url))
             /\ pages[k].inlinks  = Cardinality(EdgesTo(pages[k].final_url))
        /\ SumOutlinks(DOMAIN pages) = Len(edges)

\* a finished crawl with several pages and edges, one page with more
\* outlinks than inlinks and one with inlinks but no outlinks
C17_Witness ==
    /\ pc = "done"
    /\ Len(edges) >= 3
    /\ \E k \in DOMAIN pages : pages[k].outlinks > pages[k].inlinks /\ pages[k].inlinks > 0
    /\ \E k \in DOMAIN pages : pages[k].outlinks = 0 /\ pages[k].inlinks > 0

\* ----------------------------------------------------------- body hash
\* A document is the sequence of its text nodes once the script, style and
\* noscript elements are removed, each node the text of one block element.

\* separator.join(strings)
RECURSIVE JoinWith(_, _)
JoinWith(sep, strs) ==
    IF strs = <<>> THEN <<>>
    ELSE IF Len(strs) = 1 THEN strs[1]
    ELSE strs[1] \o sep \o JoinWith(sep, Tail(strs))

\* the strings get_text(strip=True) walks: every text node stripped, the
\* ones left empty dropped
RECURSIVE StrippedStrings(_)
StrippedStrings(nodes) ==
    IF nodes = <<>> THEN <<>>
    ELSE (IF Strip(Head(nodes)) = <<>> THEN <<>> ELSE <<Strip(Head(nodes))>>)
         \o StrippedStrings(Tail(nodes))

\* soup.get_text(" ", strip=True)
get_text(nodes) == JoinWith(<<" ">>, StrippedStrings(nodes))

\* the body-hash lines of fetch_page for the documents docs[i] served at
\* the final URLs finals[i], in that order: the hashes and self.exact_text
RECURSIVE HashPages(_, _, _)
HashPages(docs, finals, st) ==
    IF docs = <<>> THEN st
    ELSE LET h == hash_text(get_text(Head(docs)))
         IN  HashPages(Tail(docs), Tail(finals),
                 [hashes |-> Append(st.hashes, h),
                  exact  |-> Put(st.exact, h, Append(Bucket(st.exact, h), Head(finals)))])

TextNodes ==
    { <<"a">>, <<"b">>, <<"a", "b">>, <<"a", " ", "b">>, <<"a", " ", " ", "b">>,
      <<"a", "\n", "b">>, <<" ", "a">>, <<"\n">> }

Documents == { <<n>> : n \in TextNodes } \cup { <<n, m>> : n, m \in {<<"a">>, <<"b">>, <<"a", " ", "b">>, <<"\n">>} }

HashCalls == { [fn |-> "body_hash", docs |-> <<d1, d2>>] : d1, d2 \in Documents }

InitHash == IdleCrawl /\ call \in HashCalls /\ ret = [done |-> FALSE]

BodyHash ==
    /\ call.fn = "body_hash"
    /\ ~ret.done
    /\ ret' = [done |-> TRUE,
               val  |-> HashPages(call.docs, <<uA, uB>>, [hashes |-> <<>>, exact |-> << >>])]
    /\ UNCHANGED <<crawlVars, call>>

SpecHash == InitHash /\ [][BodyHash]_vars

\* the text a reader sees: the blocks one under the other
VisibleText(doc) == JoinWith(<<"\n">>, doc)

\* white space normalised: every run of white space one blank, none at the
\* ends
RECURSIVE CollapseWs(_)
CollapseWs(s) ==
    IF s = <<>> THEN <<>>
    ELSE IF Head(s) \in Whitespace
    THEN (IF Len(s) > 1 /\ s[2] \in Whitespace THEN <<>> ELSE <<" ">>) \o CollapseWs(Tail(s))
    ELSE <<Head(s)>> \o CollapseWs(Tail(s))

WsNormalize(s) == CollapseWs(Strip(s))

SameBucket ==
    \E h \in DOMAIN ret.val.exact :
        \E i, j \in DOMAIN ret.val.exact[h] :
            ret.val.exact[h][i] = uA /\ ret.val.exact[h][j] = uB

\* C18: two pages whose visible text differs only in white space get the
\* same body hash and the same duplicate bucket, identical visible text
\* gives the same bucket, and visible text that differs in content gives
\* different buckets.
C18_HashIgnoresWhitespaceOnly ==
    ret.done =>
        LET d1 == call.docs[1]
            d2 == call.docs[2]
            sameHash == ret.val.hashes[1] = ret.val.hashes[2]
        IN  /\ sameHash <=> SameBucket
            /\ VisibleText(d1) = VisibleText(d2) => sameHash
            /\ WsNormalize(VisibleText(d1)) = WsNormalize(VisibleText(d2)) => sameHash
            /\ WsNormalize(VisibleText(d1)) # WsNormalize(VisibleText(d2)) => ~sameHash

\* ------------------------------------------------------- mixed content
\* the <img> loop of fetch_page from image i on: st carries mixed_count,
\* the resolved sources collected so far and whether normalize_url raised
RECURSIVE ImageLoop(_, _, _)
ImageLoop(imgs, final_u, st) ==
    IF imgs = <<>> THEN st
    ELSE IF Head(imgs).kind = "empty" THEN ImageLoop(Tail(imgs), final_u, st)
    ELSE LET n == normalize_url(Head(imgs), final_u) IN
         IF n.raised THEN [st EXCEPT !.raised = TRUE]
         ELSE ImageLoop(Tail(imgs), final_u,
                  [st EXCEPT
                     !.mixed_count = IF n.url.scheme = "http" /\ final_u.scheme = "https"
                                     THEN @ + 1 ELSE @,
                     !.images = Append(@, n.url)])

\* what the PageRecord of the page holds once crawl() has stored it: the
\* error record (mixed_content None) when the loop raised
PageImages(imgs, final_u) ==
    LET st == ImageLoop(imgs, final_u, [raised |-> FALSE, mixed_count |-> 0, images |-> <<>>])
    IN  IF st.raised THEN [status |-> None, mixed_content |-> None, image_count |-> None]
        ELSE [status |-> 200, mixed_content |-> st.mixed_count, image_count |-> Len(st.images)]

P_img == <<"x", ".", "p", "n", "g">>

iHttp   == Href("abs_http", H_cdn, P_x, "", "")
iHttps  == Href("abs", H_cdn, P_x, "", "")
iNetloc == Href("netloc", H_cdn, P_x, "", "")
iRel    == Href("rel", <<>>, P_img, "", "")
iNoSrc  == Href("empty", <<>>, <<>>, "", "")

ImgSources == {iHttp, iHttps, iNetloc, iRel, hA, iNoSrc, hBad}

MaxImgs == 3

ImgLists == UNION { [1..n -> ImgSources] : n \in 0..MaxImgs }

uAhttp == [uA EXCEPT !.scheme = "http"]

ImageCalls ==
    { [fn |-> "images", final_u |-> f, imgs |-> l] : f \in {uA, uAhttp}, l \in ImgLists }

InitImages == IdleCrawl /\ call \in ImageCalls /\ ret = [done |-> FALSE]

FetchImages ==
    /\ call.fn = "images"
    /\ ~ret.done
    /\ ret' = [done |-> TRUE, val |-> PageImages(call.imgs, call.final_u)]
    /\ UNCHANGED <<crawlVars, call>>

SpecImages == InitImages /\ [][FetchImages]_vars

\* the img elements written with an http:// source
HttpSources == {i \in DOMAIN call.imgs : call.imgs[i].kind = "abs_http"}

\* C19: on an https page the mixed-content count is the number of img
\* elements whose resolved source has scheme http (an http:// source adds
\* one; an https:// source, a scheme-relative source and a relative source
\* add nothing); on an http page the count is 0.
C19_MixedContentCount ==
    ret.done =>
        /\ ret.val.status = 200
        /\ ret.val.mixed_content =
              IF call.final_u.scheme = "https" THEN Cardinality(HttpSources) ELSE 0

\* ---------------------------------------------------------- collect_psi
\* the performance fields of a PageRecord (None until a call stores them)
PsiFields ==
    [psi_mobile_score |-> None, psi_desktop_score |-> None,
     cwv_lcp_ms |-> None, cwv_inp_ms |-> None, cwv_cls |-> None]

\* sorted(..., key=inlinks, reverse=True): stable, so pages of equal
\* inlinks keep the order of pages.values()
RECURSIVE InsertByInlinks(_, _)
InsertByInlinks(sorted, r) ==
    IF sorted = <<>> THEN <<r>>
    ELSE IF Head(sorted).inlinks >= r.inlinks
    THEN <<Head(sorted)>> \o InsertByInlinks(Tail(sorted), r)
    ELSE <<r>> \o sorted

RECURSIVE SortByInlinks(_)
SortByInlinks(recs) ==
    IF recs = <<>> THEN <<>>
    ELSE InsertByInlinks(SortByInlinks(SubSeq(recs, 1, Len(recs) - 1)), recs[Len(recs)])

Min(a, b) == IF a <= b THEN a ELSE b

\* top = sorted(...)[:max_urls]
TopPages(recs, max_urls) == SubSeq(SortByInlinks(recs), 1, Min(max_urls, Len(recs)))

\* what one request can come to: a 200 answer with the audit values, a 200
\* answer without them, another status, an exception in get() or json()
PsiFull  == [score |-> 90, lcp |-> 2500, inp |-> 200, cls |-> 1]
PsiBlank == [score |-> None, lcp |-> None, inp |-> None, cls |-> None]

PsiOutcomes ==
    { [kind |-> "ok", data |-> PsiFull], [kind |-> "ok", data |-> PsiBlank],
      [kind |-> "non200", data |-> PsiBlank], [kind |-> "exception", data |-> PsiBlank] }

\* a slip that would reset the page's fields when the request fails
PsiStoreResetOnFailure(fields, strat, out) ==
    IF out.kind # "ok" THEN PsiFields
    ELSE [fields EXCEPT
            !.psi_mobile_score  = IF strat = "mobile" THEN out.data.score ELSE @,
            !.psi_desktop_score = IF strat = "mobile" THEN @ ELSE out.data.score,
            !.cwv_lcp_ms = IF out.data.lcp # None THEN out.data.lcp ELSE @,
            !.cwv_inp_ms = IF out.data.inp # None THEN out.data.inp ELSE @,
            !.cwv_cls    = IF out.data.cls # None THEN out.data.cls ELSE @]

\* the body of the try block for one page record and one strategy
PsiStore(fields, strat, out) ==
    IF out.kind # "ok" THEN fields
    ELSE [fields EXCEPT
            !.psi_mobile_score  = IF strat = "mobile" THEN out.data.score ELSE @,
            !.psi_desktop_score = IF strat = "mobile" THEN @ ELSE out.data.score,
            !.cwv_lcp_ms = IF out.data.lcp # None THEN out.data.lcp ELSE @,
            !.cwv_inp_ms = IF out.data.inp # None THEN out.data.inp ELSE @,
            !.cwv_cls    = IF out.data.cls # None THEN out.data.cls ELSE @]

PsiPage(u, n) == [url |-> u, inlinks |-> n]

\* pages.values() after a crawl, in insertion order
PsiPageLists ==
    { <<>>,
      <<PsiPage(uA, 1)>>,
      <<PsiPage(uA, 0), PsiPage(uB, 2)>>,
      <<PsiPage(uA, 1), PsiPage(uB, 1)>>,
      <<PsiPage(uA, 0), PsiPage(uB, 2), PsiPage(uD, 1)>>,
      <<PsiPage(uA, 1), PsiPage(uB, 1), PsiPage(uD, 1)>>,
      <<PsiPage(uA, 2), PsiPage(uB, 0), PsiPage(uD, 2)>> }

\* the lists main() can build from --psi-strategies
PsiStrategyLists ==
    { <<"mobile">>, <<"desktop">>, <<"mobile", "desktop">>,
      <<"desktop", "mobile">>, <<"mobile", "mobile">> }

MaxPsiUrls == 3

PsiCalls ==
    { [fn |-> "collect_psi", pages |-> p, strategies |-> s, max_urls |-> n] :
        p \in PsiPageLists, s \in PsiStrategyLists, n \in 0..MaxPsiUrls }

PsiUrls == {call.pages[k].url : k \in DOMAIN call.pages}

\* ret carries the position of the two loops (page i of top, strategy j),
\* the requests sent so far, what each of them came to and the performance
\* fields of every page
InitPsi ==
    /\ IdleCrawl
    /\ call \in PsiCalls
    /\ ret = [done |-> FALSE, i |-> 1, j |-> 1, log |-> <<>>, outs |-> <<>>,
              recs |-> [u \in PsiUrls |-> PsiFields]]

PsiTop == TopPages(call.pages, call.max_urls)

\* one pass of the inner loop: the request for page i of top and strategy j
PsiQuery ==
    /\ call.fn = "collect_psi"
    /\ ~ret.done
    /\ ret.i <= Len(PsiTop)
    /\ \E out \in PsiOutcomes :
         LET u     == PsiTop[ret.i].url
             strat == call.strategies[ret.j]
             last  == ret.j = Len(call.strategies)
         IN  ret' = [ret EXCEPT
                       !.log  = Append(@, <<u, strat>>),
                       !.outs = Append(@, out.kind),
                       !.recs = [@ EXCEPT ![u] = PsiStore(@, strat, out)],
                       !.i    = IF last THEN @ + 1 ELSE @,
                       !.j    = IF last THEN 1 ELSE @ + 1]
    /\ UNCHANGED <<crawlVars, call>>

\* both loops are through
PsiReturn ==
    /\ call.fn = "collect_psi"
    /\ ~ret.done
    /\ ret.i > Len(PsiTop)
    /\ ret' = [ret EXCEPT !.done = TRUE]
    /\ UNCHANGED <<crawlVars, call>>

NextPsi == PsiQuery \/ PsiReturn

SpecPsi == InitPsi /\ [][NextPsi]_vars

\* the pages a request was sent for, and the number of requests of a pair
PsiQueried == {ret.log[k][1] : k \in DOMAIN ret.log}

PsiCount(u, strat) == Cardinality({k \in DOMAIN ret.log : ret.log[k] = <<u, strat>>})

PsiInlinks(u) == (CHOOSE k \in DOMAIN call.pages : call.pages[k].url = u)

\* C20: collect_psi queries the API exactly once for each pair (selected
\* page, requested strategy) and for no other page, with no retry; the
\* selected pages are min(N, number of pages) pages, each with at least the
\* inlinks of every page that was not selected.
C20_OncePerPageAndStrategy ==
    ret.done =>
        /\ Cardinality(PsiQueried) = Min(call.max_urls, Len(call.pages))
        /\ \A u \in PsiQueried : \A v \in PsiUrls \ PsiQueried :
             call.pages[PsiInlinks(u)].inlinks >= call.pages[PsiInlinks(v)].inlinks
        /\ \A k \in DOMAIN ret.log :
             \E s \in DOMAIN call.strategies : ret.log[k][2] = call.strategies[s]
        /\ \A u \in PsiQueried : \A s \in DOMAIN call.strategies :
             PsiCount(u, call.strategies[s]) = 1

\* a request that failed: a status other than 200, or an exception in
\* get() or in json() (a body that is no JSON)
PsiFailed(kind) == kind \in {"non200", "exception"}

\* the step sends a request and the request fails
PsiFailedStep ==
    /\ Len(ret'.log) = Len(ret.log) + 1
    /\ PsiFailed(ret'.outs[Len(ret'.outs)])

CrawlResults ==
    [pc |-> pc, pages |-> pages, edges |-> edges, exact_text |-> exact_text,
     hreflang_map |-> hreflang_map]

\* the program is started again with the same --store and bounds against
\* the same snapshot: a new Auditor and a new crawl(); ret keeps what the
\* first run left behind
Recrawl ==
    /\ call.fn = "crawl"
    /\ ~ret.done
    /\ pc \in {"done", "raised"}
    /\ ret' = [done |-> TRUE, val |-> CrawlResults]
    /\ pages' = << >>
    /\ edges' = << >>
    /\ q' = << <<start_url, 0>> >>
    /\ seen' = {DedupeKey(start_url, include_params)}
    /\ pc' = "crawl"
    /\ fetchlog' = << >>
    /\ enqlog' = <<start_url>>
    /\ exact_text' = << >>
    /\ hreflang_map' = << >>
    /\ UNCHANGED <<max_pages, max_depth, include_params, served, call>>

NextTwice == Next \/ Recrawl

\* the bounds of the runs that are repeated
MaxTwicePages == 3
MaxTwiceDepth == 1

InitTwice == Init /\ max_pages <= MaxTwicePages /\ max_depth <= MaxTwiceDepth

SpecTwice == InitTwice /\ [][NextTwice]_vars

SecondRunEnded == call.fn = "crawl" /\ ret.done /\ pc \in {"done", "raised"}

SpecLive == Init /\ [][Next]_vars /\ WF_vars(Next)

LoopEnded == q = <<>> \/ NumPages >= max_pages

\* C23: on a site with finitely many same-host URLs, for any page cap and
\* max depth, the crawl loop terminates: eventually the frontier is empty
\* or the page collection has reached the cap, and then the link counts
\* are backfilled, exactly once.
C23_CrawlTerminates ==
    /\ <>[](pc = "done" /\ LoopEnded)
    /\ [][pc = "done" => pages' = pages]_vars

\* ------------------------------------------------------------ depth bound
\* the frontier entries a step has added: what q' holds after the rest of q
AddedToFrontier == SubSeq(q', Len(q), Len(q'))

\* some link of the fetched page u would be new to the frontier: same host,
\* not noise, its key not seen
HasFreshLink(u) ==
    \E i \in DOMAIN served[u].links :
        LET n == normalize_url(served[u].links[i], served[u].final)
        IN  /\ ~n.raised
            /\ host_of(n.url) = host
            /\ ~should_skip(n.url, <<>>, <<>>).skip
            /\ DedupeKey(n.url, include_params) \notin seen

\* C24: no URL is ever enqueued or fetched at a depth greater than
\* max_depth: the start URL has depth 0, every other enqueued URL has depth
\* exactly one more than the page on which it was discovered, and the
\* links of a page at depth max_depth are never enqueued.
C24_DepthBound ==
    /\ [](/\ \A i \in DOMAIN q : q[i][2] <= max_depth
          /\ \A i \in DOMAIN fetchlog : fetchlog[i].depth <= max_depth
          /\ fetchlog # <<>> => fetchlog[1] = [url |-> start_url, depth |-> 0])
    /\ [][fetchlog' # fetchlog =>
             LET d == QGet(q).item[2]
             IN  /\ IsPrefix(QGet(q).rest, q')
                 /\ \A k \in DOMAIN AddedToFrontier :
                      AddedToFrontier[k][2] = d + 1 /\ d + 1 <= max_depth
                 /\ Len(enqlog') - Len(enqlog) = Len(AddedToFrontier)
                 /\ d = max_depth => AddedToFrontier = <<>>]_vars

\* a page fetched at depth max_depth had a link that would have been new to
\* the frontier, and a page was fetched at depth 2
C24_Witness ==
    /\ pc = "done"
    /\ max_depth = 2
    /\ q = <<>>
    /\ \E i \in DOMAIN fetchlog :
         /\ fetchlog[i].depth = max_depth
         /\ FetchedOk(fetchlog[i].url)
         /\ HasFreshLink(fetchlog[i].url)

\* ------------------------------------------------------------ host scope
SameHostAsStart(u) == Lower(u.host) = Lower(start_url.host)

\* C25: every URL handed to the fetcher and every Edge target has the
\* start URL's host, letter case apart: a link whose resolved host differs
\* is neither enqueued nor recorded as an Edge.
C25_SameHostOnly ==
    /\ \A i \in DOMAIN fetchlog : SameHostAsStart(fetchlog[i].url)
    /\ \A i \in DOMAIN enqlog : SameHostAsStart(enqlog[i])
    /\ \A i \in DOMAIN q : SameHostAsStart(q[i][1])
    /\ \A i \in DOMAIN edges : SameHostAsStart(edges[i].target)

\* a page linking to the product under the host in capitals and to another
\* host was processed: the first link gave an Edge and a fetch, the second
\* nothing
C25_Witness ==
    /\ pc = "done"
    /\ \E u \in DOMAIN served :
         /\ FetchedOk(u)
         /\ served[u].links = <<hAcaps, hExt>>
         /\ \E i \in DOMAIN edges :
              /\ edges[i].source = served[u].final
              /\ edges[i].target.host = H_SITE_CAPS
         /\ \E i \in DOMAIN fetchlog : fetchlog[i].url.host = H_SITE_CAPS
         /\ Cardinality({i \in DOMAIN edges : edges[i].source = served[u].final}) = 1

\* ------------------------------------------------- the mappings and pages
\* the step is an iteration whose fetch ended as a failure record
FailedFetchStep ==
    /\ fetchlog' # fetchlog
    /\ fetch_page(QGet(q).item[1], served'[QGet(q).item[1]]).raised

\* C26: after the crawl every URL listed in the body-hash mapping under
\* hash h is the key of a PageRecord whose body_hash is h; a fetch that
\* ends as a failure record leaves no entry of its own in the body-hash
\* mapping or the hreflang mapping.
C26_MappingsMatchPages ==
    /\ [](pc = "done" =>
             \A h \in DOMAIN exact_text : \A i \in DOMAIN exact_text[h] :
                 /\ exact_text[h][i] \in DOMAIN pages
                 /\ pages[exact_text[h][i]].body_hash = h)
    /\ [][FailedFetchStep =>
             exact_text' = exact_text /\ hreflang_map' = hreflang_map]_vars

\* ------------------------------------------------- noise and the pages
\* noise by the rules as the specification lists them
NoiseByRules(u, meta_robots, x_robots) ==
    \E n \in 1..7 :
        RuleMatches(n, [u |-> u, meta_robots |-> meta_robots, x_robots |-> x_robots])

\* C27 (as stated): after the crawl no PageRecord other than the start
\* page's is noise for the classifier applied to its final URL with its own
\* meta robots and X-Robots-Tag values.
C27_NoNoisePageKept ==
    pc = "done" =>
        \A k \in DOMAIN pages :
            pages[k].url # start_url
            => ~NoiseByRules(pages[k].final_url, pages[k].meta_robots,
                             pages[k].x_robots_tag)

\* C27 (amended): no URL other than the start URL is handed to the fetcher
\* if the path rules mark it as noise, so after the crawl no PageRecord
\* other than the start page's has such a requested URL; pages that are
\* noise by their own robots values or by the URL a redirect led to are
\* kept in the page collection.
C27_NoNoiseUrlRequested ==
    /\ \A i \in DOMAIN fetchlog :
         fetchlog[i].url # start_url => ~NoiseByRules(fetchlog[i].url, <<>>, <<>>)
    /\ \A k \in DOMAIN pages :
         pages[k].url # start_url => ~NoiseByRules(pages[k].url, <<>>, <<>>)

\* the crawl kept a page that says noindex and a page that a redirect took
\* to /cart, and found a link to /cart that it did not follow
C27_Witness ==
    /\ pc = "done"
    /\ \E k \in DOMAIN pages :
         /\ pages[k].url # start_url
         /\ pages[k].meta_robots = S_noindex
         /\ NoiseByRules(pages[k].final_url, pages[k].meta_robots, pages[k].x_robots_tag)
    /\ \E k \in DOMAIN pages :
         /\ pages[k].url = uD
         /\ pages[k].final_url = uCart
    /\ \A i \in DOMAIN fetchlog : fetchlog[i].url # uCart

\* ---------------------------------------------------------------- inlinks
\* C28: after the crawl every PageRecord other than the start page's has
\* an inlink count of at least 1, each such page having been reached
\* through a link for which an Edge was recorded.
C28_InlinksAtLeastOne ==
    pc = "done" =>
        \A k \in DOMAIN pages : pages[k].url # start_url => pages[k].inlinks >= 1

\* --------------------------------------------------------- export_workbook
ImageExts ==
    { <<"j", "p", "g">>, <<"j", "p", "e", "g">>, <<"p", "n", "g">>,
      <<"w", "e", "b", "p">>, <<"g", "i", "f">>, <<"a", "v", "i", "f">> }

EndsWith(s, p) == Len(s) >= Len(p) /\ SubSeq(s, Len(s) - Len(p) + 1, Len(s)) = p

\* re.search(r"\.(jpg|jpeg|png|webp|gif|avif)$", fn, re.I): $ matches at the
\* end of fn and before a newline that ends fn
HasImageExt(fn) ==
    LET s == IF fn # <<>> /\ fn[Len(fn)] = "\n" THEN SubSeq(fn, 1, Len(fn) - 1) ELSE fn
    IN  \E e \in ImageExts : EndsWith(Lower(s), <<".">> \o e)

ImageInfo(fn) == [filename |-> fn]

\* the "# Per-image checks" loop of one page: st carries the file counters
\* and the Images Detail rows (the alt columns are left out)
RECURSIVE QualityImageLoop(_, _, _)
QualityImageLoop(images, url, st) ==
    IF images = <<>> THEN st
    ELSE LET fn  == Head(images).filename
             bad == IF HasImageExt(fn) THEN st.file_bad_ext ELSE st.file_bad_ext + 1
         IN  QualityImageLoop(Tail(images), url,
                 [file_spaces     |-> IF Contains(fn, <<" ">>) THEN st.file_spaces + 1
                                      ELSE st.file_spaces,
                  file_upper      |-> IF fn # Lower(fn) THEN st.file_upper + 1
                                      ELSE st.file_upper,
                  file_underscore |-> IF Contains(fn, <<"_">>) THEN st.file_underscore + 1
                                      ELSE st.file_underscore,
                  file_bad_ext    |-> bad,
                  rows |-> Append(st.rows,
                              [URL |-> url, FILENAME |-> fn,
                               HasSpaces |-> Contains(fn, <<" ">>),
                               HasUppercase |-> fn # Lower(fn),
                               HasUnderscore |-> Contains(fn, <<"_">>),
                               BadExt |-> bad # 0])])

PageImageChecks(r, url) ==
    QualityImageLoop(r.images, url,
        [file_spaces |-> 0, file_upper |-> 0, file_underscore |-> 0,
         file_bad_ext |-> 0, rows |-> <<>>])

\* skip and noise_policy == "exclude" for the page stored under u
Excluded(pgs, u, noise_policy) ==
    /\ should_skip(u, pgs[u].meta_robots, pgs[u].x_robots_tag).skip
    /\ noise_policy = "exclude"

\* the pages the Quality loops do not pass over
QualityPages(pgs, noise_policy) ==
    [u \in {x \in DOMAIN pgs : ~Excluded(pgs, x, noise_policy)} |-> pgs[u]]

\* the Issues rows of the page stored under u
IssueRowsOf(pgs, u, noise_policy) ==
    LET issues_map == build_issues(pgs)
        sk         == should_skip(u, pgs[u].meta_robots, pgs[u].x_robots_tag)
    IN  IF u \notin DOMAIN issues_map \/ Excluded(pgs, u, noise_policy) THEN <<>>
        ELSE [i \in 1..(Len(issues_map[u]) - 1) |->
                [URL |-> u,
                 TopSeverity |-> issues_map[u][1].TopSeverity,
                 Reason |-> issues_map[u][i + 1].Reason,
                 Severity |-> issues_map[u][i + 1].Severity,
                 Noise |-> IF sk.skip /\ noise_policy = "label" THEN sk.reason ELSE ""]]

\* "# Issues": order is the insertion order of pages
RECURSIVE IssueRows(_, _, _)
IssueRows(pgs, order, noise_policy) ==
    IF order = <<>> THEN <<>>
    ELSE IssueRowsOf(pgs, Head(order), noise_policy)
            \o IssueRows(pgs, Tail(order), noise_policy)

\* the Quality row of the page stored under u
QualityRow(pgs, u, noise_policy) ==
    LET title == Strip(pgs[u].title)
        desc  == Strip(pgs[u].meta_description)
        kept  == QualityPages(pgs, noise_policy)
        st    == PageImageChecks(pgs[u], u)
    IN  [URL |-> u,
         TitleTooShort  |-> 0 < Len(title) /\ Len(title) < TITLE_MIN,
         TitleTooLong   |-> Len(title) > TITLE_MAX,
         TitleDuplicate |-> IF title # <<>> THEN Lower(Strip(title)) \in dup_titles(kept)
                            ELSE FALSE,
         DescTooShort   |-> 0 < Len(desc) /\ Len(desc) < META_MIN,
         DescTooLong    |-> Len(desc) > META_MAX,
         DescDuplicate  |-> IF desc # <<>> THEN Lower(Strip(desc)) \in dup_descs(kept)
                            ELSE FALSE,
         FilenamesWithSpaces      |-> st.file_spaces,
         FilenamesWithUppercase   |-> st.file_upper,
         FilenamesWithUnderscores |-> st.file_underscore,
         FilesBadExt              |-> st.file_bad_ext]

\* "# QUALITY SHEET": the second loop over pages
RECURSIVE QualityRows(_, _, _)
QualityRows(pgs, order, noise_policy) ==
    IF order = <<>> THEN <<>>
    ELSE (IF Excluded(pgs, Head(order), noise_policy) THEN <<>>
          ELSE <<QualityRow(pgs, Head(order), noise_policy)>>)
            \o QualityRows(pgs, Tail(order), noise_policy)

RECURSIVE ImagesDetailRows(_, _, _)
ImagesDetailRows(pgs, order, noise_policy) ==
    IF order = <<>> THEN <<>>
    ELSE (IF Excluded(pgs, Head(order), noise_policy) THEN <<>>
          ELSE PageImageChecks(pgs[Head(order)], Head(order)).rows)
            \o ImagesDetailRows(pgs, Tail(order), noise_policy)

\* the row lists of the Issues, Quality and Images Detail sheets
export_workbook(pgs, order, noise_policy) ==
    [issue_rows         |-> IssueRows(pgs, order, noise_policy),
     quality_rows       |-> QualityRows(pgs, order, noise_policy),
     images_detail_rows |-> ImagesDetailRows(pgs, order, noise_policy)]

\* the fields of a PageRecord the three sheets read
ExportPage(title, desc, meta_robots, x_robots_tag, images) ==
    [title |-> title, meta_description |-> desc, meta_robots |-> meta_robots,
     x_robots_tag |-> x_robots_tag, images |-> images]

ExportTitles == { <<>>, <<"t">>, <<" ", "T">>, <<"u">> }

ExportDescs == { <<>>, <<"d">>, <<"D">> }

ExportRobots == { <<<<>>, <<>>>>, <<S_noindex, <<>>>>, <<<<>>, S_NOINDEX>> }

\* path_slug of an image source: its last path segment
ExportFilenames ==
    { <<"a", ".", "j", "p", "g">>, <<"B", ".", "P", "N", "G">>,
      <<"c", ".", "b", "m", "p">> }

MaxExportImgs == 2

ExportImageLists ==
    UNION { [1..n -> {ImageInfo(fn) : fn \in ExportFilenames}] : n \in 0..MaxExportImgs }

ExportPages ==
    { ExportPage(t, d, rb[1], rb[2], <<>>) :
        t \in ExportTitles, d \in ExportDescs, rb \in ExportRobots }
    \cup { ExportPage(<<"t">>, <<>>, <<>>, <<>>, l) : l \in ExportImageLists }

\* the keys of pages in insertion order
ExportOrders == { <<uA, uB>>, <<uA, uCart>> }

Range(s) == {s[i] : i \in DOMAIN s}

ExportCalls ==
    UNION { { [fn |-> "export_workbook", order |-> o, pages |-> pgs, noise_policy |-> p] :
                pgs \in [Range(o) -> ExportPages], p \in {"exclude", "label"} } :
            o \in ExportOrders }

InitExport == IdleCrawl /\ call \in ExportCalls /\ ret = [done |-> FALSE]

ExportWorkbook ==
    /\ call.fn = "export_workbook"
    /\ ~ret.done
    /\ ret' = [done |-> TRUE,
               val |-> export_workbook(call.pages, call.order, call.noise_policy)]
    /\ UNCHANGED <<crawlVars, call>>

SpecExport == InitExport /\ [][ExportWorkbook]_vars

HasIssueRow(u, reason) ==
    \E i \in DOMAIN ret.val.issue_rows :
        ret.val.issue_rows[i].URL = u /\ ret.val.issue_rows[i].Reason = reason

QualityTitleDuplicate(u) ==
    \E k \in DOMAIN ret.val.quality_rows :
        ret.val.quality_rows[k].URL = u /\ ret.val.quality_rows[k].TitleDuplicate

QualityDescDuplicate(u) ==
    \E k \in DOMAIN ret.val.quality_rows :
        ret.val.quality_rows[k].URL = u /\ ret.val.quality_rows[k].DescDuplicate

\* C29: in one workbook, under either noise policy, a page has a "Duplicate
\* title" row in Issues exactly when its Quality row has Title Duplicate
\* true, and a "Duplicate meta description" row exactly when its Quality row
\* has Desc Duplicate true.
C29_IssuesAgreeWithQuality ==
    ret.done =>
        \A u \in DOMAIN call.pages :
            /\ HasIssueRow(u, "Duplicate title") <=> QualityTitleDuplicate(u)
            /\ HasIssueRow(u, "Duplicate meta description") <=> QualityDescDuplicate(u)

\* C30: the Bad Ext flag of an Images Detail row is true exactly when the
\* filename of that row has none of the extensions jpg, jpeg, png, webp,
\* gif, avif, whatever the other images of the page and their order; the
\* flagged rows of a page are as many as its "Files bad ext" count.
C30_BadExtPerImage ==
    ret.done =>
        /\ \A k \in DOMAIN ret.val.images_detail_rows :
             ret.val.images_detail_rows[k].BadExt
                <=> ~HasImageExt(ret.val.images_detail_rows[k].FILENAME)
        /\ \A n \in DOMAIN ret.val.quality_rows :
             Cardinality({k \in DOMAIN ret.val.images_detail_rows :
                            /\ ret.val.images_detail_rows[k].URL = ret.val.quality_rows[n].URL
                            /\ ret.val.images_detail_rows[k].BadExt})
               = ret.val.quality_rows[n].FilesBadExt

====
